---- MODULE Spec2Model ----
(***************************************************************************)
(* A model of waguri-read's panel tools:                                   *)
(*   scanner.py  - perceptual duplicate scan (gather_panels,               *)
(*                 find_similar_pairs, scan_repository) and the Tk review  *)
(*                 application ScannerApp with its worker thread;          *)
(*   missing.py  - the missing-panel-number report;                        *)
(*   the containment search of spec.md section 4.5.                        *)
(*                                                                         *)
(* Function-level specifications (SpecPairs, SpecLoad, ...) draw the       *)
(* arguments of one call in Init (variable args) and apply the function in *)
(* their only action (variable result).  Spec is the application.          *)
(***************************************************************************)
EXTENDS Integers, Sequences, FiniteSets, TLC

VARIABLES
    args,       \* the arguments of the function call under study
    result,     \* its return value (None before the call)
    pc,         \* "call" before the function ran, "done" after
    tree,       \* the panels folder on disk, as the application sees it
    app,        \* the fields and widgets of ScannerApp
    threads,    \* the worker threads started so far, by position
    after_queue \* the callbacks scheduled with root.after(0, ...), oldest first

vars == <<args, result, pc, tree, app, threads, after_queue>>

None == "None"

(* The function-level specifications run no application.                    *)
NotRunning ==
    /\ tree = None
    /\ app = None
    /\ threads = <<>>
    /\ after_queue = <<>>

------------------------------------------------------------------------------
(* Bounds of the model.                                                     *)

MaxRecords == 3         \* records handed to find_similar_pairs
FingerprintBits == 4    \* bit positions compared by the reference popcount

(* Sample inputs.  Dimensions: 10 vs 11 is inside the 10% tolerance, 10 vs  *)
(* 20 is outside; <<10,20>> and <<20,10>> have the same area.               *)
SampleDims == {<<10, 10>>, <<11, 10>>, <<10, 20>>, <<20, 10>>}
SampleHashes == {0, 1, 6, 15}
SampleThresholds == {0, 1, 2}

------------------------------------------------------------------------------
(* scanner.py: PanelInfo, SimilarPair and the pure functions.               *)

DIMENSION_RATIO_TOLERANCE_PERCENT == 10     \* 0.1, as hundredths

PanelInfo(path, width, height, hash_value) ==
    [path |-> path, width |-> width, height |-> height, hash_value |-> hash_value]

SimilarPair(left, right, distance) ==
    [left |-> left, right |-> right, distance |-> distance]

Abs(x) == IF x < 0 THEN -x ELSE x
Max2(a, b) == IF a >= b THEN a ELSE b
Min2(a, b) == IF a <= b THEN a ELSE b

(* (first ^ second).bit_count() on Python's unbounded non-negative ints.    *)
RECURSIVE hamming_distance(_, _)
hamming_distance(first, second) ==
    IF first = 0 /\ second = 0 THEN 0
    ELSE (IF first % 2 # second % 2 THEN 1 ELSE 0)
         + hamming_distance(first \div 2, second \div 2)

(* width_diff <= max_width * 0.1 on floats equals 100*diff <= 10*max on     *)
(* integers (0.1 rounds up, max/10 is exact or not an integer).             *)
dimensions_close_width_only(a, b) ==
    LET width_diff == Abs(a.width - b.width)
        max_width == IF Max2(a.width, b.width) = 0 THEN 1 ELSE Max2(a.width, b.width)
    IN  100 * width_diff <= max_width * DIMENSION_RATIO_TOLERANCE_PERCENT
dimensions_close(a, b) ==
    LET width_diff == Abs(a.width - b.width)
        height_diff == Abs(a.height - b.height)
        max_width == IF Max2(a.width, b.width) = 0 THEN 1 ELSE Max2(a.width, b.width)
        max_height == IF Max2(a.height, b.height) = 0 THEN 1 ELSE Max2(a.height, b.height)
    IN  /\ 100 * width_diff <= max_width * DIMENSION_RATIO_TOLERANCE_PERCENT
        /\ 100 * height_diff <= max_height * DIMENSION_RATIO_TOLERANCE_PERCENT

(* sorted(records, key=width*height): Python's sort is stable, so equal     *)
(* areas keep their input order (insertion after the last not-greater key). *)
Area(item) == item.width * item.height

RECURSIVE InsertByArea(_, _)
InsertByArea(item, sorted) ==
    IF sorted = <<>> THEN <<item>>
    ELSE IF Area(Head(sorted)) <= Area(item)
         THEN <<Head(sorted)>> \o InsertByArea(item, Tail(sorted))
         ELSE <<item>> \o sorted

RECURSIVE SortedByArea(_)
SortedByArea(records) ==
    IF records = <<>> THEN <<>>
    ELSE InsertByArea(records[Len(records)],
                      SortedByArea(SubSeq(records, 1, Len(records) - 1)))

(* The inner loop: left against every record after it.                      *)
RECURSIVE PairsWith(_, _, _)
PairsWith(left, rest, threshold) ==
    IF rest = <<>> THEN <<>>
    ELSE LET right == Head(rest)
             distance == hamming_distance(left.hash_value, right.hash_value)
             hit == IF dimensions_close(left, right) /\ distance <= threshold
                    THEN <<SimilarPair(left, right, distance)>>
                    ELSE <<>>
         IN  hit \o PairsWith(left, Tail(rest), threshold)

(* The outer loop, from index idx (1-based) on.                             *)
RECURSIVE PairsFrom(_, _, _)
PairsFrom(sorted_records, idx, threshold) ==
    IF idx > Len(sorted_records) THEN <<>>
    ELSE PairsWith(sorted_records[idx],
                   SubSeq(sorted_records, idx + 1, Len(sorted_records)),
                   threshold)
         \o PairsFrom(sorted_records, idx + 1, threshold)

find_similar_pairs_with_self(records, threshold) ==
    LET sorted_records == SortedByArea(records)
        RECURSIVE Outer(_)
        Outer(idx) ==
            IF idx > Len(sorted_records) THEN <<>>
            ELSE PairsWith(sorted_records[idx],
                           SubSeq(sorted_records, idx, Len(sorted_records)),
                           threshold)
                 \o Outer(idx + 1)
    IN  Outer(1)
find_similar_pairs(records, threshold) ==
    PairsFrom(SortedByArea(records), 1, threshold)

------------------------------------------------------------------------------
(* SpecPairs: find_similar_pairs on the records of one chapter.  The        *)
(* records come from gather_panels: distinct paths, in path order.          *)

RootDir == 0

Path(dir, name) == [dir |-> dir, name |-> name]

RecordLists ==
    UNION {
        { [i \in 1..n |-> PanelInfo(Path(RootDir, i), d[i][1], d[i][2], h[i])] :
            d \in [1..n -> SampleDims], h \in [1..n -> SampleHashes] }
        : n \in 0..MaxRecords }

InitPairs ==
    /\ args \in [records : RecordLists, threshold : SampleThresholds]
    /\ result = None
    /\ pc = "call"
    /\ NotRunning

CallFindSimilarPairs ==
    /\ pc = "call"
    /\ result' = find_similar_pairs(args.records, args.threshold)
    /\ pc' = "done"
    /\ UNCHANGED <<args, tree, app, threads, after_queue>>

NextPairs == CallFindSimilarPairs

SpecPairs == InitPairs /\ [][NextPairs]_vars

------------------------------------------------------------------------------
(* Properties of find_similar_pairs (SpecPairs).                            *)

Returned == pc = "done"

ResultPairs == {result[k] : k \in 1..Len(result)}

(* The reference distance: the number of bit positions where the two        *)
(* fingerprints differ.                                                     *)
Bit(value, i) == (value \div (2 ^ i)) % 2
PopcountXor(a, b) == Cardinality({i \in 0..(FingerprintBits - 1) : Bit(a, i) # Bit(b, i)})

WithinTolerance(x, y) == 10 * Abs(x - y) <= Max2(x, y)

ReportsOf(a, b) ==
    {k \in 1..Len(result) : {result[k].left.path, result[k].right.path} = {a.path, b.path}}

SameDimensions(a, b) == a.width = b.width /\ a.height = b.height

(* C2: two distinct records of equal (width, height) are reported exactly   *)
(* once when popcount(fingerprint_A XOR fingerprint_B) <= T and never       *)
(* otherwise; the reported distance is that popcount; no record is paired   *)
(* with itself.                                                             *)
C2_SameDimensionPairs ==
    Returned =>
        /\ \A i, j \in 1..Len(args.records) :
             (i < j /\ SameDimensions(args.records[i], args.records[j])) =>
                LET a == args.records[i]
                    b == args.records[j]
                    d == PopcountXor(a.hash_value, b.hash_value)
                IN  /\ Cardinality(ReportsOf(a, b)) = (IF d <= args.threshold THEN 1 ELSE 0)
                    /\ \A k \in ReportsOf(a, b) : result[k].distance = d
        /\ \A k \in 1..Len(result) : result[k].left.path # result[k].right.path

(* Three records of equal dimensions: one pair reported with a non-zero     *)
(* distance, another pair beyond the threshold and not reported.            *)
C2_Witness ==
    /\ Returned
    /\ \E i, j, k \in 1..Len(args.records) :
         LET a == args.records[i]
             b == args.records[j]
             c == args.records[k]
         IN  /\ i < j /\ j < k
             /\ SameDimensions(a, b) /\ SameDimensions(b, c)
             /\ PopcountXor(a.hash_value, b.hash_value) \in 1..args.threshold
             /\ Cardinality(ReportsOf(a, b)) = 1
             /\ PopcountXor(a.hash_value, c.hash_value) > args.threshold
             /\ ReportsOf(a, c) = {}

------------------------------------------------------------------------------
(* scanner.py: gather_panels.  A directory is [listable, entries]: entries  *)
(* maps each entry name (an integer, ordered as the names sort) to a file.  *)
(* A file says whether it passes the is_file/suffix filter and how          *)
(* Image.open/convert/compute_average_hash end on it: "ok", "OSError" (the  *)
(* handled failure) or "Error" (an exception that is not an OSError, such   *)
(* as PIL's DecompressionBombError).  iterdir() on an unlistable directory  *)
(* raises OSError outside the try block.                                    *)

MaxFiles == 5           \* entries of the chapter handed to gather_panels

File(candidate, decode, width, height, hash_value) ==
    [candidate |-> candidate, decode |-> decode,
     width |-> width, height |-> height, hash_value |-> hash_value]

NotAPanel == File(FALSE, "ok", 10, 10, 0)       \* a subdirectory, a .txt file
Corrupt   == File(TRUE, "OSError", 0, 0, 0)
Unhandled == File(TRUE, "Error", 0, 0, 0)
Panel(width, height, hash_value) == File(TRUE, "ok", width, height, hash_value)

Directory(listable, entries) == [listable |-> listable, entries |-> entries]

Minimum(S) == CHOOSE x \in S : \A y \in S : x <= y

(* sorted(names) *)
RECURSIVE SortedNames(_)
SortedNames(S) ==
    IF S = {} THEN <<>>
    ELSE <<Minimum(S)>> \o SortedNames(S \ {Minimum(S)})

(* The loop of gather_panels over the sorted entries: the records appended  *)
(* so far and the exception that left the loop, if any.  Nothing is         *)
(* reported for a file whose decode raised OSError (signals stays empty).   *)
Gathered(raised, records) == [raised |-> raised, records |-> records, signals |-> <<>>]

RECURSIVE GatherLoop(_, _, _, _)
GatherLoop(chapter_path, entries, names, records) ==
    IF names = <<>> THEN Gathered(None, records)
    ELSE LET entry == entries[Head(names)]
         IN  IF ~entry.candidate
             THEN GatherLoop(chapter_path, entries, Tail(names), records)
             ELSE IF entry.decode = "OSError"
             THEN GatherLoop(chapter_path, entries, Tail(names), records)
             ELSE IF entry.decode = "Error"
             THEN Gathered("Error", records)
             ELSE GatherLoop(chapter_path, entries, Tail(names),
                             Append(records,
                                    PanelInfo(Path(chapter_path, Head(names)),
                                              entry.width, entry.height,
                                              entry.hash_value)))

RECURSIVE GatherLoopStopping(_, _, _, _)
GatherLoopStopping(chapter_path, entries, names, records) ==
    IF names = <<>> THEN Gathered(None, records)
    ELSE LET entry == entries[Head(names)]
         IN  IF ~entry.candidate
             THEN GatherLoopStopping(chapter_path, entries, Tail(names), records)
             ELSE IF entry.decode = "OSError"
             THEN Gathered(None, records)
             ELSE IF entry.decode = "Error"
             THEN Gathered("Error", records)
             ELSE GatherLoopStopping(chapter_path, entries, Tail(names),
                                     Append(records,
                                            PanelInfo(Path(chapter_path, Head(names)),
                                                      entry.width, entry.height,
                                                      entry.hash_value)))

gather_panels_stopping(chapter_path, dir) ==
    IF ~dir.listable THEN Gathered("OSError", <<>>)
    ELSE GatherLoopStopping(chapter_path, dir.entries, SortedNames(DOMAIN dir.entries), <<>>)
gather_panels(chapter_path, dir) ==
    IF ~dir.listable THEN Gathered("OSError", <<>>)
    ELSE GatherLoop(chapter_path, dir.entries, SortedNames(DOMAIN dir.entries), <<>>)

------------------------------------------------------------------------------
(* SpecLoad: gather_panels on one chapter directory.                        *)

LoadFiles == {NotAPanel, Corrupt, Unhandled, Panel(10, 10, 0), Panel(11, 10, 1)}

EntryMaps(maxNames, files) ==
    UNION {[names -> files] : names \in SUBSET (1..maxNames)}

InitLoad ==
    /\ args \in [chapter_path : {RootDir},
                 dir : {Directory(l, e) : l \in BOOLEAN, e \in EntryMaps(MaxFiles, LoadFiles)}]
    /\ result = None
    /\ pc = "call"
    /\ NotRunning

CallGatherPanels ==
    /\ pc = "call"
    /\ result' = gather_panels(args.chapter_path, args.dir)
    /\ pc' = "done"
    /\ UNCHANGED <<args, tree, app, threads, after_queue>>

NextLoad == CallGatherPanels

SpecLoad == InitLoad /\ [][NextLoad]_vars

(* The candidate files of the chapter, those that decode and those whose    *)
(* decode fails with the handled failure.                                   *)
Candidates(dir) == {n \in DOMAIN dir.entries : dir.entries[n].candidate}
Decodable(dir) == {n \in Candidates(dir) : dir.entries[n].decode = "ok"}
Undecodable(dir) == {n \in Candidates(dir) : dir.entries[n].decode = "OSError"}

C4_FailuresRecorded ==
    (Returned /\ args.dir.listable
              /\ Candidates(args.dir) = Decodable(args.dir) \cup Undecodable(args.dir)) =>
        /\ Len(result.signals) = Cardinality(Undecodable(args.dir))
        /\ \A n \in Undecodable(args.dir) :
             \E k \in 1..Len(result.signals) :
                result.signals[k].path = Path(args.chapter_path, n)

------------------------------------------------------------------------------
(* missing.py: the missing-panel report of one chapter.  A file name stem   *)
(* is a sequence of characters: a digit is its value 0..9, any other        *)
(* character is NonDigit.                                                   *)

MaxPanelFiles == 4      \* entries of the chapter handed to summarize_chapter

NonDigit == -1

(* None where the code has int | None: panel numbers are never negative.    *)
NoNumber == -1

IsDigit(c) == c \in 0..9

(* NUMBER_PATTERN.findall(stem)[-1]: the last maximal run of digits, found  *)
(* from the end of the stem; <<>> when the stem has no digit.               *)
RECURSIVE DropTrailingNonDigits(_)
DropTrailingNonDigits(stem) ==
    IF stem = <<>> \/ IsDigit(stem[Len(stem)]) THEN stem
    ELSE DropTrailingNonDigits(SubSeq(stem, 1, Len(stem) - 1))

RECURSIVE TrailingDigits(_)
TrailingDigits(stem) ==
    IF stem = <<>> \/ ~IsDigit(stem[Len(stem)]) THEN <<>>
    ELSE Append(TrailingDigits(SubSeq(stem, 1, Len(stem) - 1)), stem[Len(stem)])

(* int(digits), base 10 *)
RECURSIVE ToInt(_)
ToInt(digits) ==
    IF digits = <<>> THEN 0
    ELSE 10 * ToInt(SubSeq(digits, 1, Len(digits) - 1)) + digits[Len(digits)]

extract_panel_number(stem) ==
    LET match == TrailingDigits(DropTrailingNonDigits(stem))
    IN  IF match = <<>> THEN NoNumber ELSE ToInt(match)

(* sorted(numbers) on a list of integers *)
RECURSIVE InsertNumber(_, _)
InsertNumber(n, sorted) ==
    IF sorted = <<>> THEN <<n>>
    ELSE IF Head(sorted) <= n
         THEN <<Head(sorted)>> \o InsertNumber(n, Tail(sorted))
         ELSE <<n>> \o sorted

RECURSIVE SortedNumbers(_)
SortedNumbers(numbers) ==
    IF numbers = <<>> THEN <<>>
    ELSE InsertNumber(numbers[Len(numbers)],
                      SortedNumbers(SubSeq(numbers, 1, Len(numbers) - 1)))

Contains(seq, x) == \E k \in 1..Len(seq) : seq[k] = x

(* The loop of collect_panel_numbers, in path order.                        *)
RECURSIVE CollectLoop(_, _, _, _, _)
CollectLoop(entries, names, numbers, duplicates, seen) ==
    IF names = <<>> THEN [numbers |-> numbers, duplicates |-> duplicates]
    ELSE LET file == entries[Head(names)]
             number == extract_panel_number(file.stem)
         IN  IF ~file.candidate \/ number = NoNumber
             THEN CollectLoop(entries, Tail(names), numbers, duplicates, seen)
             ELSE CollectLoop(entries, Tail(names),
                              Append(numbers, number),
                              IF number \in seen /\ ~Contains(duplicates, number)
                              THEN Append(duplicates, number) ELSE duplicates,
                              seen \cup {number})

collect_panel_numbers_unsorted(dir) ==
    CollectLoop(dir.entries, SortedNames(DOMAIN dir.entries), <<>>, <<>>, {})
collect_panel_numbers(dir) ==
    LET found == CollectLoop(dir.entries, SortedNames(DOMAIN dir.entries), <<>>, <<>>, {})
    IN  [numbers |-> SortedNumbers(found.numbers),
         duplicates |-> SortedNumbers(found.duplicates)]

(* range(previous + 1, current) as a list *)
Range(from, to) == [k \in 1..Max2(to - from, 0) |-> from + k - 1]

(* The zip(numbers, numbers[1:]) loop of find_missing from position idx.    *)
RECURSIVE MissingFrom(_, _)
MissingFrom(numbers, idx) ==
    IF idx >= Len(numbers) THEN <<>>
    ELSE LET previous == numbers[idx]
             current == numbers[idx + 1]
             gap == current - previous
         IN  (IF gap > 1 THEN Range(previous + 1, current) ELSE <<>>)
             \o MissingFrom(numbers, idx + 1)

RECURSIVE MissingFromWideGaps(_, _)
MissingFromWideGaps(numbers, idx) ==
    IF idx >= Len(numbers) THEN <<>>
    ELSE LET previous == numbers[idx]
             current == numbers[idx + 1]
             gap == current - previous
         IN  (IF gap > 2 THEN Range(previous + 1, current) ELSE <<>>)
             \o MissingFromWideGaps(numbers, idx + 1)

find_missing_wide_gaps(numbers) ==
    IF Len(numbers) < 2 THEN <<>> ELSE MissingFromWideGaps(numbers, 1)
find_missing(numbers) ==
    IF Len(numbers) < 2 THEN <<>> ELSE MissingFrom(numbers, 1)

ChapterReport(name, panel_count, min_panel, max_panel, missing, duplicates) ==
    [name |-> name, panel_count |-> panel_count, min_panel |-> min_panel,
     max_panel |-> max_panel, missing |-> missing, duplicates |-> duplicates]

summarize_chapter(chapter, dir) ==
    LET collected == collect_panel_numbers(dir)
        numbers == collected.numbers
    IN  ChapterReport(chapter, Len(numbers),
                      IF numbers # <<>> THEN numbers[1] ELSE NoNumber,
                      IF numbers # <<>> THEN numbers[Len(numbers)] ELSE NoNumber,
                      find_missing(numbers),
                      collected.duplicates)

------------------------------------------------------------------------------
(* SpecMissing: summarize_chapter on one chapter directory.                 *)

NumberedFile(candidate, stem) == [candidate |-> candidate, stem |-> stem]

(* "cover", "1", "01", "3", "p5", "1-3", "10", and a "7" that is no panel.  *)
MissingFiles ==
    {NumberedFile(TRUE, <<NonDigit>>), NumberedFile(TRUE, <<1>>),
     NumberedFile(TRUE, <<0, 1>>), NumberedFile(TRUE, <<3>>),
     NumberedFile(TRUE, <<NonDigit, 5>>), NumberedFile(TRUE, <<1, NonDigit, 3>>),
     NumberedFile(TRUE, <<1, 0>>), NumberedFile(FALSE, <<7>>)}

InitMissing ==
    /\ args \in [chapter : {1},
                 dir : {Directory(TRUE, e) : e \in EntryMaps(MaxPanelFiles, MissingFiles)}]
    /\ result = None
    /\ pc = "call"
    /\ NotRunning

CallSummarizeChapter ==
    /\ pc = "call"
    /\ result' = summarize_chapter(args.chapter, args.dir)
    /\ pc' = "done"
    /\ UNCHANGED <<args, tree, app, threads, after_queue>>

NextMissing == CallSummarizeChapter

SpecMissing == InitMissing /\ [][NextMissing]_vars

(* The panel numbers present in the chapter.                                *)
PanelNumbers(dir) ==
    {extract_panel_number(dir.entries[n].stem) :
        n \in {m \in DOMAIN dir.entries :
                 /\ dir.entries[m].candidate
                 /\ extract_panel_number(dir.entries[m].stem) # NoNumber}}

IsAscending(seq) == \A k \in 1..(Len(seq) - 1) : seq[k] <= seq[k + 1]
IsStrictlyAscending(seq) == \A k \in 1..(Len(seq) - 1) : seq[k] < seq[k + 1]

(* C7: find_missing gets an ascending list, and ChapterReport.missing is,   *)
(* ascending and without repeats, exactly the integers strictly between     *)
(* the smallest and the largest panel number that are no panel number; it   *)
(* is empty with fewer than two numbers or no gap.                          *)
C7_MissingExact ==
    Returned =>
        LET present == PanelNumbers(args.dir)
        IN  /\ IsAscending(collect_panel_numbers(args.dir).numbers)
            /\ IsStrictlyAscending(result.missing)
            /\ result.panel_count < 2 => result.missing = <<>>
            /\ present # {} =>
                 /\ result.min_panel = Minimum(present)
                 /\ \A n \in present : n <= result.max_panel
                 /\ result.max_panel \in present
                 /\ {result.missing[k] : k \in 1..Len(result.missing)}
                      = {n \in (result.min_panel + 1)..(result.max_panel - 1) : n \notin present}
            /\ present = {} =>
                 result.missing = <<>> /\ result.min_panel = NoNumber
                                       /\ result.max_panel = NoNumber

(* Files listed out of numeric order, a repeated number and two gaps, one   *)
(* of them a single number.                                                 *)
C7_Witness ==
    /\ Returned
    /\ ~IsAscending(collect_panel_numbers_unsorted(args.dir).numbers)
    /\ result.duplicates # <<>>
    /\ result.missing = <<2, 4>>

------------------------------------------------------------------------------
(* The containment search of spec.md section 4.5, on raw RGB buffers.  An   *)
(* image is [width, height, pixels]; pixels is the row-major byte sequence  *)
(* of length width * height * Channels.  Offsets are 0-based as in the      *)
(* description.                                                             *)

MaxWidth == 3           \* widest container, in pixels

Channels == 3

SampleHeights == {1, 2}
Palette == {<<0, 1, 0>>, <<1, 0, 1>>}

Stride(image) == image.width * Channels

(* bytes [from, from + length) of a buffer *)
Slice(buffer, from, length) == SubSeq(buffer, from + 1, from + length)

RowSlice(image, y) == Slice(image.pixels, y * Stride(image), Stride(image))

NotFound == -1

(* The lowest offset >= start at which needle occurs in haystack.           *)
RECURSIVE Find(_, _, _)
Find(haystack, needle, start) ==
    IF start + Len(needle) > Len(haystack) THEN NotFound
    ELSE IF Slice(haystack, start, Len(needle)) = needle THEN start
    ELSE Find(haystack, needle, start + 1)

(* Rows 1 .. sh-1 of the candidate against the container rows below y0, at  *)
(* the byte offset of the first-row match.                                  *)
RowsVerify(container, candidate, y0, position) ==
    \A offset \in 1..(candidate.height - 1) :
        Slice(RowSlice(container, y0 + offset), position, Stride(candidate))
          = RowSlice(candidate, offset)

RECURSIVE SearchRowSkipping(_, _, _, _)
SearchRowSkipping(container, candidate, y0, start) ==
    LET position == Find(RowSlice(container, y0), RowSlice(candidate, 0), start)
    IN  IF position = NotFound THEN FALSE
        ELSE IF position % Channels = 0 /\ RowsVerify(container, candidate, y0, position)
        THEN TRUE
        ELSE SearchRowSkipping(container, candidate, y0, position + Stride(candidate))

(* The occurrences of the first row in container row y0, from start on.     *)
RECURSIVE SearchRow(_, _, _, _)
SearchRow(container, candidate, y0, start) ==
    LET position == Find(RowSlice(container, y0), RowSlice(candidate, 0), start)
    IN  IF position = NotFound THEN FALSE
        ELSE IF position % Channels = 0 /\ RowsVerify(container, candidate, y0, position)
        THEN TRUE
        ELSE SearchRow(container, candidate, y0, position + 1)

RECURSIVE SearchFrom(_, _, _)
SearchFrom(container, candidate, y0) ==
    IF y0 > container.height - candidate.height THEN FALSE
    ELSE IF SearchRow(container, candidate, y0, 0) THEN TRUE
    ELSE SearchFrom(container, candidate, y0 + 1)

ContainmentDetector(container, candidate) == SearchFrom(container, candidate, 0)

------------------------------------------------------------------------------
(* SpecContain: the containment search on one (candidate, container) pair:  *)
(* the candidate fits into the container and is not of the same dimensions. *)

RECURSIVE Flatten(_)
Flatten(seqs) == IF seqs = <<>> THEN <<>> ELSE Head(seqs) \o Flatten(Tail(seqs))

Images(widths, heights) ==
    UNION {
        { [width |-> w, height |-> h, pixels |-> Flatten(grid)] :
            grid \in [1..(w * h) -> Palette] }
        : <<w, h>> \in widths \X heights }

InitContain ==
    /\ args \in {a \in [container : Images(1..MaxWidth, SampleHeights),
                        candidate : Images(1..MaxWidth, SampleHeights)] :
                    /\ a.candidate.width <= a.container.width
                    /\ a.candidate.height <= a.container.height
                    /\ ~(a.candidate.width = a.container.width
                         /\ a.candidate.height = a.container.height)}
    /\ result = None
    /\ pc = "call"
    /\ NotRunning

CallContainmentDetector ==
    /\ pc = "call"
    /\ result' = ContainmentDetector(args.container, args.candidate)
    /\ pc' = "done"
    /\ UNCHANGED <<args, tree, app, threads, after_queue>>

NextContain == CallContainmentDetector

SpecContain == InitContain /\ [][NextContain]_vars

(* Pixel (x, y) of an image, as its Channels bytes.                         *)
PixelAt(image, x, y) == Slice(image.pixels, (y * image.width + x) * Channels, Channels)

(* The candidate is the crop of the container at pixel offset (x0, y0).     *)
IsCropAt(container, candidate, x0, y0) ==
    \A x \in 0..(candidate.width - 1), y \in 0..(candidate.height - 1) :
        PixelAt(candidate, x, y) = PixelAt(container, x0 + x, y0 + y)

IsCrop(container, candidate) ==
    \E x0 \in 0..(container.width - candidate.width),
       y0 \in 0..(container.height - candidate.height) :
        IsCropAt(container, candidate, x0, y0)

(* C6: the search reports true exactly when the candidate is an             *)
(* axis-aligned crop of the container at an integer pixel offset.           *)
C6_ContainmentExact ==
    Returned => (result = IsCrop(args.container, args.candidate))

(* The crop sits at pixel offset (x0, 0) and nowhere before it in row 0,    *)
(* while the candidate's first row also occurs earlier in that row: at an   *)
(* unaligned byte offset, and at an aligned one where a later row fails.    *)
C6_Witness ==
    /\ Returned /\ result = TRUE
    /\ \E x0 \in 1..(args.container.width - args.candidate.width) :
         LET row == RowSlice(args.container, 0)
             first == RowSlice(args.candidate, 0)
         IN  /\ IsCropAt(args.container, args.candidate, x0, 0)
             /\ \A x \in 0..(x0 - 1) : ~IsCropAt(args.container, args.candidate, x, 0)
             /\ \E position \in 0..(x0 * Channels - 1) :
                  position % Channels # 0 /\ Slice(row, position, Len(first)) = first
             /\ \E x \in 0..(x0 - 1) :
                  /\ Slice(row, x * Channels, Len(first)) = first
                  /\ ~RowsVerify(args.container, args.candidate, 0, x * Channels)

------------------------------------------------------------------------------
(* scanner.py: scan_repository.  The panels folder is [root, subdirs]:      *)
(* root is the Directory of the folder itself (listable, and the files      *)
(* directly in it), subdirs lists its subdirectories as [name, dir] in the  *)
(* order iterdir() yields them.  A chapter name is one character, given by  *)
(* its code (66 is "B", 97 is "a"), so that name.lower() has work to do.    *)

MaxChapters == 2        \* subdirectories of the panels folder

Lower(name) == IF name \in 65..90 THEN name + 32 ELSE name
ChapterSortKey(name) == Lower(name)

Chapter(name, dir) == [name |-> name, dir |-> dir]

(* sorted(..., key=lambda path: path.name.lower()), stable *)
RECURSIVE InsertChapter(_, _)
InsertChapter(chapter, sorted) ==
    IF sorted = <<>> THEN <<chapter>>
    ELSE IF ChapterSortKey(Head(sorted).name) <= ChapterSortKey(chapter.name)
         THEN <<Head(sorted)>> \o InsertChapter(chapter, Tail(sorted))
         ELSE <<chapter>> \o sorted

RECURSIVE SortedChapters(_)
SortedChapters(subdirs) ==
    IF subdirs = <<>> THEN <<>>
    ELSE InsertChapter(subdirs[Len(subdirs)],
                       SortedChapters(SubSeq(subdirs, 1, Len(subdirs) - 1)))

(* chapters: the sorted subdirectories, or the root itself without any.     *)
ChaptersOf(folder) ==
    IF folder.subdirs = <<>> THEN <<Chapter(RootDir, folder.root)>>
    ELSE SortedChapters(folder.subdirs)

ScanningMessage(name, idx, total) ==
    [text |-> "Scanning", name |-> name, idx |-> idx, total |-> total]
ScanCompleteMessage(count) == [text |-> "Scan complete", count |-> count]

(* One iteration of the chapter loop on the pairs collected so far: the     *)
(* exception that leaves scan_repository, if any, and the pairs after it.   *)
ScanChapter(pairs, chapter, threshold) ==
    LET gathered == gather_panels(chapter.name, chapter.dir)
    IN  IF gathered.raised # None
        THEN [raised |-> gathered.raised, pairs |-> pairs]
        ELSE IF gathered.records = <<>>
        THEN [raised |-> None, pairs |-> pairs]
        ELSE [raised |-> None,
              pairs |-> pairs \o find_similar_pairs(gathered.records, threshold)]

(* What the caller of scan_repository gets: the returned pairs, or the      *)
(* exception and no pairs; progress lists the progress_cb messages.         *)
Scanned(raised, pairs, progress) ==
    [raised |-> raised, pairs |-> pairs, progress |-> progress]

RECURSIVE ScanLoop(_, _, _, _, _)
ScanLoop(chapters, idx, threshold, pairs, progress) ==
    IF idx > Len(chapters)
    THEN Scanned(None, pairs, Append(progress, ScanCompleteMessage(Len(pairs))))
    ELSE LET said == Append(progress,
                            ScanningMessage(chapters[idx].name, idx, Len(chapters)))
             step == ScanChapter(pairs, chapters[idx], threshold)
         IN  IF step.raised # None
             THEN Scanned(step.raised, <<>>, said)
             ELSE ScanLoop(chapters, idx + 1, threshold, step.pairs, said)

RECURSIVE AllRecords(_, _)
AllRecords(chapters, idx) ==
    IF idx > Len(chapters) THEN <<>>
    ELSE gather_panels(chapters[idx].name, chapters[idx].dir).records
         \o AllRecords(chapters, idx + 1)

scan_repository_flat(folder, threshold) ==
    IF ~folder.root.listable THEN Scanned("OSError", <<>>, <<>>)
    ELSE LET scanned == ScanLoop(ChaptersOf(folder), 1, threshold, <<>>, <<>>)
         IN  IF scanned.raised # None THEN scanned
             ELSE Scanned(None,
                          find_similar_pairs(AllRecords(ChaptersOf(folder), 1), threshold),
                          scanned.progress)
scan_repository(folder, threshold) ==
    IF ~folder.root.listable THEN Scanned("OSError", <<>>, <<>>)
    ELSE ScanLoop(ChaptersOf(folder), 1, threshold, <<>>, <<>>)

------------------------------------------------------------------------------
(* SpecScan: scan_repository on one panels folder.                          *)

ChapterNames == {66, 97, 98}        \* "B", "a", "b"

Entries3(first, second, third) == (1 :> first) @@ (2 :> second) @@ (3 :> third)

(* Sample chapter directories.  The panels of different directories have   *)
(* equal dimensions and fingerprints: compared across chapters, they would  *)
(* pair.                                                                    *)
EmptyDir == Directory(TRUE, <<>>)
PairDir == Directory(TRUE, Entries3(Panel(10, 10, 0), Corrupt, Panel(10, 10, 1)))
TripleDir == Directory(TRUE, Entries3(Panel(10, 10, 0), Panel(11, 10, 0), Panel(10, 10, 1)))
SingleDir == Directory(TRUE, (2 :> Panel(10, 10, 0)))
BombDir == Directory(TRUE, Entries3(Panel(10, 10, 0), Panel(10, 10, 0), Unhandled))
LockedDir == Directory(FALSE, <<>>)

SampleDirs == {EmptyDir, PairDir, TripleDir, SingleDir, BombDir, LockedDir}

(* The subdirectory listings: distinct names, in any order.                 *)
SubdirListings ==
    UNION {
        { [i \in 1..n |-> Chapter(names[i], dirs[i])] :
            names \in {f \in [1..n -> ChapterNames] : \A i, j \in 1..n : i # j => f[i] # f[j]},
            dirs \in [1..n -> SampleDirs] }
        : n \in 0..MaxChapters }

Trees == [root : SampleDirs, subdirs : SubdirListings]

InitScan ==
    /\ args \in [tree : Trees, threshold : {1, 4}]
    /\ result = None
    /\ pc = "call"
    /\ NotRunning

CallScanRepository ==
    /\ pc = "call"
    /\ result' = scan_repository(args.tree, args.threshold)
    /\ pc' = "done"
    /\ UNCHANGED <<args, tree, app, threads, after_queue>>

NextScan == CallScanRepository

SpecScan == InitScan /\ [][NextScan]_vars

(* The chapter directories of a folder, by name, and the pairs of one       *)
(* chapter analysed on its own.                                             *)
ChapterSet(folder) ==
    IF folder.subdirs = <<>> THEN {Chapter(RootDir, folder.root)}
    ELSE {folder.subdirs[i] : i \in 1..Len(folder.subdirs)}

ChapterPairs(chapter, threshold) ==
    find_similar_pairs(gather_panels(chapter.name, chapter.dir).records, threshold)

PairsOfChapter(pairs, name) ==
    LET InChapter(p) == p.left.path.dir = name
    IN  SelectSeq(pairs, InChapter)

ListingPosition(folder, name) ==
    IF folder.subdirs = <<>> THEN 0
    ELSE CHOOSE i \in 1..Len(folder.subdirs) : folder.subdirs[i].name = name

(* C8: both members of every pair lie in the same chapter directory; the    *)
(* result is the per-chapter pair lists, one after the other, chapters in   *)
(* the order of their lower-cased names (listing order among equal ones);   *)
(* the root is the only chapter when it has no subdirectory.                *)
C8_PairsScopedPerChapter ==
    (Returned /\ result.raised = None) =>
        /\ \A k \in 1..Len(result.pairs) :
             result.pairs[k].left.path.dir = result.pairs[k].right.path.dir
        /\ \A c \in ChapterSet(args.tree) :
             PairsOfChapter(result.pairs, c.name) = ChapterPairs(c, args.threshold)
        /\ \A k \in 1..Len(result.pairs) :
             \E c \in ChapterSet(args.tree) : result.pairs[k].left.path.dir = c.name
        /\ \A k, l \in 1..Len(result.pairs) :
             LET a == result.pairs[k].left.path.dir
                 b == result.pairs[l].left.path.dir
             IN  (k < l /\ a # b) =>
                    \/ Lower(a) < Lower(b)
                    \/ /\ Lower(a) = Lower(b)
                       /\ ListingPosition(args.tree, a) < ListingPosition(args.tree, b)

(* Two chapters listed against the order of their lower-cased names ("B"    *)
(* sorts after "a", though its code is smaller), each with pairs, and with  *)
(* panels that would pair across the two.                                   *)
C8_Witness ==
    /\ Returned /\ result.raised = None
    /\ Len(args.tree.subdirs) = 2
    /\ args.tree.subdirs[1].name = 66 /\ args.tree.subdirs[2].name = 97
    /\ PairsOfChapter(result.pairs, 66) # <<>>
    /\ PairsOfChapter(result.pairs, 97) # <<>>
    /\ result.pairs[1].left.path.dir = 97
    /\ Len(result.pairs) < Len(find_similar_pairs(AllRecords(ChaptersOf(args.tree), 1),
                                                  args.threshold))

(* C5: in a folder whose chapters can be enumerated, when the analysis of   *)
(* one chapter raises, the caller still gets the pairs of every other       *)
(* chapter.                                                                 *)
C5_ChapterErrorsIsolated ==
    (Returned /\ args.tree.root.listable) =>
        \A c \in ChapterSet(args.tree) :
            gather_panels(c.name, c.dir).raised = None =>
                \A k \in 1..Len(ChapterPairs(c, args.threshold)) :
                    Contains(result.pairs, ChapterPairs(c, args.threshold)[k])

------------------------------------------------------------------------------
(* scanner.py: ScannerApp.  app holds the fields and widget states:         *)
(*   threshold_var, status_var, duplicate_pairs, scan_thread,               *)
(*   pair_listbox  - the labels in the listbox,                             *)
(*   selection     - the selected listbox positions (curselection()),       *)
(*   previews      - what the two canvases show,                            *)
(*   scan_button, action_buttons - "normal" or "disabled".                  *)
(* Positions are 1-based here (Tk index 0 is position 1).  scan_thread is   *)
(* the position of the thread in threads, NoThread for None.                *)

MaxScans == 2           \* worker threads started in one run of the application

NoThread == 0
THRESHOLD_MIN == 1
THRESHOLD_MAX == 32
THRESHOLD_DEFAULT == 4

NORMAL == "normal"
DISABLED == "disabled"

NoPreviews == [shown |-> FALSE]

Message(text) == [text |-> text]

(* path.exists() on the panels folder as it is now.                         *)
DirOf(folder, name) ==
    IF name = RootDir THEN folder.root
    ELSE LET at == {i \in 1..Len(folder.subdirs) : folder.subdirs[i].name = name}
         IN  IF at = {} THEN EmptyDir ELSE folder.subdirs[CHOOSE i \in at : TRUE].dir

Exists(folder, path) == path.name \in DOMAIN DirOf(folder, path.dir).entries

(* target.unlink() *)
WithoutEntry(dir, name) ==
    Directory(dir.listable, [n \in (DOMAIN dir.entries) \ {name} |-> dir.entries[n]])

Unlink(folder, path) ==
    IF path.dir = RootDir
    THEN [folder EXCEPT !.root = WithoutEntry(folder.root, path.name)]
    ELSE [folder EXCEPT !.subdirs =
            [i \in 1..Len(folder.subdirs) |->
                IF folder.subdirs[i].name = path.dir
                THEN Chapter(path.dir, WithoutEntry(folder.subdirs[i].dir, path.name))
                ELSE folder.subdirs[i]]]

(* Listbox.delete(index): the item goes, later positions shift down.        *)
RemoveAt(seq, index) == SubSeq(seq, 1, index - 1) \o SubSeq(seq, index + 1, Len(seq))

SelectionAfterDelete(selection, index) ==
    {i \in selection : i < index} \cup {i - 1 : i \in {j \in selection : j > index}}

_update_action_buttons(a) ==
    [a EXCEPT !.action_buttons = IF a.selection # {} THEN NORMAL ELSE DISABLED]

_clear_previews(a) == [a EXCEPT !.previews = NoPreviews]

_clear_listbox(a) == [a EXCEPT !.pair_listbox = <<>>, !.selection = {}]

(* _load_preview gives an image when the file is there.                     *)
_on_pair_select(a, folder) ==
    IF a.selection = {}
    THEN _update_action_buttons(_clear_previews(a))
    ELSE LET index == Minimum(a.selection)
         IN  IF index > Len(a.duplicate_pairs) THEN a
             ELSE LET pair == a.duplicate_pairs[index]
                  IN  _update_action_buttons(
                        [a EXCEPT !.previews =
                            [shown |-> TRUE,
                             left |-> pair.left.path, right |-> pair.right.path,
                             left_image |-> Exists(folder, pair.left.path),
                             right_image |-> Exists(folder, pair.right.path)]])

_remove_pair_at_pairs_only(a, folder, index) ==
    IF index > Len(a.duplicate_pairs) THEN a
    ELSE _update_action_buttons(
            [a EXCEPT !.duplicate_pairs = RemoveAt(a.duplicate_pairs, index)])

_remove_pair_at(a, folder, index) ==
    IF index > Len(a.duplicate_pairs) THEN a
    ELSE LET popped == [a EXCEPT
                          !.duplicate_pairs = RemoveAt(a.duplicate_pairs, index),
                          !.pair_listbox = RemoveAt(a.pair_listbox, index),
                          !.selection = SelectionAfterDelete(a.selection, index)]
         IN  IF popped.duplicate_pairs # <<>>
             THEN LET new_index == Min2(index, Len(popped.duplicate_pairs))
                      (* selection_set on a position the listbox lacks selects nothing *)
                      selected == [popped EXCEPT !.selection =
                                     IF new_index <= Len(popped.pair_listbox)
                                     THEN popped.selection \cup {new_index}
                                     ELSE popped.selection]
                  IN  _update_action_buttons(_on_pair_select(selected, folder))
             ELSE _update_action_buttons(_clear_previews(popped))

Label(index, pair) ==
    [index |-> index, left |-> pair.left.path.name, right |-> pair.right.path.name,
     distance |-> pair.distance]

_on_scan_failed(a, error) ==
    [a EXCEPT !.scan_button = NORMAL, !.status_var = Message("Scan failed")]

_on_scan_complete(a, folder, pairs) ==
    LET BothExist(pair) == Exists(folder, pair.left.path) /\ Exists(folder, pair.right.path)
        kept == SelectSeq(pairs, BothExist)
        count == Len(kept)
        listed == [a EXCEPT
                     !.scan_button = NORMAL,
                     !.duplicate_pairs = kept,
                     !.pair_listbox = a.pair_listbox
                                      \o [i \in 1..count |-> Label(i, kept[i])],
                     !.status_var = IF count = 0 THEN Message("No similar panels detected")
                                    ELSE [text |-> "pairs ready for review", count |-> count]]
    IN  IF count > 0
        THEN _update_action_buttons(
                _on_pair_select([listed EXCEPT !.selection = listed.selection \cup {1}],
                                folder))
        ELSE _update_action_buttons(listed)

(* if self.scan_thread and self.scan_thread.is_alive(): return              *)
IsAlive(thread) == thread.pc # "dead"

NeverAlive(a, running) == FALSE
ScanThreadAlive(a, running) ==
    a.scan_thread # NoThread /\ IsAlive(running[a.scan_thread])

Clamp(value) == Max2(THRESHOLD_MIN, Min2(THRESHOLD_MAX, value))

Worker(threshold) ==
    [pc |-> "start", chapters |-> <<>>, idx |-> 1, pairs |-> <<>>,
     threshold |-> threshold, error |-> None, error_bound |-> FALSE]

(* _start_scan up to the thread's creation: the fields after it.            *)
StartedScan(a, threshold, thread) ==
    [_clear_previews(_clear_listbox(a)) EXCEPT
        !.threshold_var = threshold,
        !.duplicate_pairs = <<>>,
        !.status_var = Message("Starting scan"),
        !.scan_button = DISABLED,
        !.scan_thread = thread]

------------------------------------------------------------------------------
(* Spec: the application on a panels folder.  The user clicks Start Scan    *)
(* (with some text in the folder entry and the threshold spinbox), selects  *)
(* listbox items and presses the keep buttons; the worker thread runs       *)
(* scan_repository chapter by chapter; the Tk main loop runs the callbacks  *)
(* scheduled with root.after in the order they were scheduled.              *)

SpinInputs == {0, 4, 40}

AppTrees ==
    {[root |-> EmptyDir, subdirs |-> <<Chapter(66, PairDir), Chapter(97, TripleDir)>>],
     [root |-> TripleDir, subdirs |-> <<>>],
     [root |-> EmptyDir, subdirs |-> <<Chapter(97, PairDir), Chapter(98, LockedDir)>>],
     [root |-> EmptyDir, subdirs |-> <<Chapter(97, BombDir), Chapter(98, PairDir)>>],
     [root |-> LockedDir, subdirs |-> <<>>]}

Init ==
    /\ args = None
    /\ result = None
    /\ pc = "mainloop"
    /\ tree \in AppTrees
    /\ app = [threshold_var |-> THRESHOLD_DEFAULT,
              status_var |-> Message("Idle"),
              duplicate_pairs |-> <<>>,
              pair_listbox |-> <<>>,
              selection |-> {},
              previews |-> NoPreviews,
              scan_button |-> NORMAL,
              action_buttons |-> DISABLED,
              scan_thread |-> NoThread]
    /\ threads = <<>>
    /\ after_queue = <<>>

Running == pc = "mainloop"

(* A click on Start Scan.  Tk drops the click on a disabled button; the     *)
(* command is _start_scan, which returns early while the thread is alive    *)
(* or when the folder does not exist.                                       *)
ClickStartScan(path_exists, typed) ==
    /\ Running
    /\ IF app.scan_button = DISABLED THEN UNCHANGED <<app, threads>>
       ELSE IF ScanThreadAlive(app, threads) THEN UNCHANGED <<app, threads>>
       ELSE IF ~path_exists THEN UNCHANGED <<app, threads>>
       ELSE /\ Len(threads) < MaxScans
            /\ app' = StartedScan(app, Clamp(typed), Len(threads) + 1)
            /\ threads' = Append(threads, Worker(Clamp(typed)))
    /\ UNCHANGED <<args, result, pc, tree, after_queue>>

(* root.after(0, callback) *)
After(callback) == after_queue' = Append(after_queue, callback)

Raised(thread, error) ==
    [thread EXCEPT !.pc = "raised", !.error = error, !.error_bound = TRUE]

(* worker: scan_repository lists the folder.                                *)
WorkerListChapters(t) ==
    /\ Running
    /\ threads[t].pc = "start"
    /\ threads' = [threads EXCEPT ![t] =
         IF ~tree.root.listable THEN Raised(@, "OSError")
         ELSE [@ EXCEPT !.pc = "chapter", !.idx = 1,
                        !.chapters = [i \in 1..Len(ChaptersOf(tree)) |->
                                        ChaptersOf(tree)[i].name]]]
    /\ UNCHANGED <<args, result, pc, tree, app, after_queue>>

(* worker: one iteration of the chapter loop.                               *)
WorkerScanChapter(t) ==
    /\ Running
    /\ threads[t].pc = "chapter"
    /\ threads[t].idx <= Len(threads[t].chapters)
    /\ LET name == threads[t].chapters[threads[t].idx]
           step == ScanChapter(threads[t].pairs, Chapter(name, DirOf(tree, name)),
                               threads[t].threshold)
       IN  /\ After([kind |-> "status",
                     message |-> ScanningMessage(name, threads[t].idx,
                                                 Len(threads[t].chapters))])
           /\ threads' = [threads EXCEPT ![t] =
                IF step.raised # None THEN Raised(@, step.raised)
                ELSE [@ EXCEPT !.pairs = step.pairs, !.idx = @ + 1]]
    /\ UNCHANGED <<args, result, pc, tree, app>>

(* worker: scan_repository reports the count and returns.                   *)
WorkerReturn(t) ==
    /\ Running
    /\ threads[t].pc = "chapter"
    /\ threads[t].idx > Len(threads[t].chapters)
    /\ After([kind |-> "status", message |-> ScanCompleteMessage(Len(threads[t].pairs))])
    /\ threads' = [threads EXCEPT ![t].pc = "returned"]
    /\ UNCHANGED <<args, result, pc, tree, app>>

(* worker: self.root.after(0, lambda: self._on_scan_complete(pairs))        *)
WorkerPostComplete(t) ==
    /\ Running
    /\ threads[t].pc = "returned"
    /\ After([kind |-> "complete", pairs |-> threads[t].pairs])
    /\ threads' = [threads EXCEPT ![t].pc = "exiting"]
    /\ UNCHANGED <<args, result, pc, tree, app>>

(* worker: self.root.after(0, lambda: self._on_scan_failed(error)); the     *)
(* lambda reads the variable error of this thread when it runs.             *)
WorkerPostFailed(t) ==
    /\ Running
    /\ threads[t].pc = "raised"
    /\ After([kind |-> "failed", thread |-> t])
    /\ threads' = [threads EXCEPT ![t].pc = "leaving except"]
    /\ UNCHANGED <<args, result, pc, tree, app>>

(* worker: return inside "except Exception as error": the except clause     *)
(* unbinds error on its way out, then the thread ends.                      *)
WorkerLeaveExcept(t) ==
    /\ Running
    /\ threads[t].pc = "leaving except"
    /\ threads' = [threads EXCEPT ![t].pc = "dead", ![t].error_bound = FALSE]
    /\ UNCHANGED <<args, result, pc, tree, app, after_queue>>

(* worker: the thread ends after scheduling _on_scan_complete.              *)
WorkerExit(t) ==
    /\ Running
    /\ threads[t].pc = "exiting"
    /\ threads' = [threads EXCEPT ![t].pc = "dead"]
    /\ UNCHANGED <<args, result, pc, tree, app, after_queue>>

(* The main loop runs the oldest scheduled callback.  The failure lambda    *)
(* raises NameError when the worker has already unbound error: Tk reports   *)
(* the exception and _on_scan_failed does not run.                          *)
RunCallback(a, callback) ==
    IF callback.kind = "status" THEN [a EXCEPT !.status_var = callback.message]
    ELSE IF callback.kind = "complete" THEN _on_scan_complete(a, tree, callback.pairs)
    ELSE IF threads[callback.thread].error_bound
         THEN _on_scan_failed(a, threads[callback.thread].error)
         ELSE a

RunAfterCallback ==
    /\ Running
    /\ after_queue # <<>>
    /\ app' = RunCallback(app, Head(after_queue))
    /\ after_queue' = Tail(after_queue)
    /\ UNCHANGED <<args, result, pc, tree, threads>>

(* The user selects item index of the listbox: <<ListboxSelect>>.           *)
SelectPair(index) ==
    /\ Running
    /\ index \in 1..Len(app.pair_listbox)
    /\ app' = _on_pair_select([app EXCEPT !.selection = {index}], tree)
    /\ UNCHANGED <<args, result, pc, tree, threads, after_queue>>

(* A click on an enabled keep button: _resolve_pair(delete_side).  The      *)
(* user confirms or not; unlink succeeds or raises OSError.                 *)
ResolvePair(delete_side, confirmed, unlink_ok) ==
    /\ Running
    /\ app.action_buttons = NORMAL
    /\ IF app.selection = {} \/ Minimum(app.selection) > Len(app.duplicate_pairs)
       THEN UNCHANGED <<app, tree>>
       ELSE LET index == Minimum(app.selection)
                pair == app.duplicate_pairs[index]
                target == IF delete_side = "left" THEN pair.left.path ELSE pair.right.path
            IN  IF ~Exists(tree, target)
                THEN app' = _remove_pair_at(app, tree, index) /\ UNCHANGED tree
                ELSE IF ~confirmed \/ ~unlink_ok THEN UNCHANGED <<app, tree>>
                ELSE /\ tree' = Unlink(tree, target)
                     /\ app' = _remove_pair_at(
                                  [app EXCEPT !.status_var =
                                      [text |-> "Deleted", name |-> target]],
                                  Unlink(tree, target), index)
    /\ UNCHANGED <<args, result, pc, threads, after_queue>>

Next ==
    \/ \E path_exists \in BOOLEAN, typed \in SpinInputs : ClickStartScan(path_exists, typed)
    \/ \E t \in DOMAIN threads : WorkerListChapters(t)
    \/ \E t \in DOMAIN threads : WorkerScanChapter(t)
    \/ \E t \in DOMAIN threads : WorkerReturn(t)
    \/ \E t \in DOMAIN threads : WorkerPostComplete(t)
    \/ \E t \in DOMAIN threads : WorkerPostFailed(t)
    \/ \E t \in DOMAIN threads : WorkerLeaveExcept(t)
    \/ \E t \in DOMAIN threads : WorkerExit(t)
    \/ RunAfterCallback
    \/ \E index \in DOMAIN app.pair_listbox : SelectPair(index)
    \/ \E delete_side \in {"left", "right"}, confirmed \in BOOLEAN, unlink_ok \in BOOLEAN :
         ResolvePair(delete_side, confirmed, unlink_ok)

Spec == Init /\ [][Next]_vars

------------------------------------------------------------------------------
(* Properties of the application (Spec).                                    *)

ScanInProgress(t) == threads[t].pc \in {"start", "chapter"}

WorkerAlive == \E t \in DOMAIN threads : IsAlive(threads[t])

TerminalCallbackPending ==
    \E k \in 1..Len(after_queue) : after_queue[k].kind \in {"complete", "failed"}

StartScanClicked ==
    \E path_exists \in BOOLEAN, typed \in SpinInputs : ClickStartScan(path_exists, typed)

(* C9: at most one scan_repository run is in progress at any time, and a    *)
(* Start Scan click made while a worker is alive or while its completion    *)
(* or failure callback is pending starts no worker and leaves the results   *)
(* (duplicate_pairs and the listbox) as they are.                           *)
C9_OneScanAtATime ==
    /\ [](Cardinality({t \in DOMAIN threads : ScanInProgress(t)}) <= 1)
    /\ [][(StartScanClicked /\ (WorkerAlive \/ TerminalCallbackPending)) =>
            /\ threads' = threads
            /\ app'.scan_thread = app.scan_thread
            /\ app'.duplicate_pairs = app.duplicate_pairs
            /\ app'.pair_listbox = app.pair_listbox]_vars

(* The second worker is still alive after its completion callback ran: the  *)
(* button is enabled again, results are listed, and only the is_alive       *)
(* check stands between a click and a third worker.                         *)
C9_Witness ==
    /\ Running
    /\ Len(threads) = 2
    /\ ~IsAlive(threads[1])
    /\ threads[2].pc = "exiting"
    /\ app.scan_thread = 2
    /\ app.scan_button = NORMAL
    /\ app.duplicate_pairs # <<>>

(* C10: a started scan ends with _on_scan_complete or _on_scan_failed       *)
(* having re-enabled the scan button: once every worker has ended and no    *)
(* callback is left to run, the button is enabled.                          *)
C10_ScanReachesTerminalState ==
    (Running /\ ~WorkerAlive /\ after_queue = <<>>) => app.scan_button = NORMAL

ResolveDeletes(delete_side, confirmed, unlink_ok) ==
    ResolvePair(delete_side, confirmed, unlink_ok) /\ tree' # tree

SelectedPair == app.duplicate_pairs[Minimum(app.selection)]

ChosenSide(delete_side) ==
    IF delete_side = "left" THEN SelectedPair.left.path ELSE SelectedPair.right.path

KeptSide(delete_side) ==
    IF delete_side = "left" THEN SelectedPair.right.path ELSE SelectedPair.left.path

(* C11: resolving a pair never destroys both copies: whenever _resolve_pair *)
(* deletes a file, the file is the chosen side of the selected pair, the    *)
(* user has confirmed, and the kept side of that pair exists on disk at     *)
(* that moment.                                                             *)
C11_KeptCopyExists ==
    [][\A delete_side \in {"left", "right"}, confirmed \in BOOLEAN, unlink_ok \in BOOLEAN :
          ResolveDeletes(delete_side, confirmed, unlink_ok) =>
            /\ confirmed
            /\ tree' = Unlink(tree, ChosenSide(delete_side))
            /\ Exists(tree, KeptSide(delete_side))]_vars

(* C12: the listbox and duplicate_pairs stay in one-to-one index            *)
(* correspondence: the listbox has exactly len(duplicate_pairs) entries,    *)
(* entry i is the label made for duplicate_pairs[i], and every selected     *)
(* position is a position of duplicate_pairs, so the selected index denotes *)
(* the pair a resolve acts on.                                              *)
C12_ListboxMatchesPairs ==
    Running =>
        /\ Len(app.pair_listbox) = Len(app.duplicate_pairs)
        /\ \A i \in DOMAIN app.pair_listbox :
              app.pair_listbox[i] = Label(app.pair_listbox[i].index, app.duplicate_pairs[i])
        /\ app.selection \subseteq DOMAIN app.duplicate_pairs

(* A second scan has completed and a pair before the selected one's label   *)
(* was removed: the first listed label was made as item 2 or later, and the *)
(* selection still denotes a listed pair.                                   *)
C12_Witness ==
    /\ Running
    /\ Len(threads) = 2
    /\ app.scan_thread = 2
    /\ app.scan_button = NORMAL
    /\ Len(app.duplicate_pairs) >= 2
    /\ app.pair_listbox[1].index > 1
    /\ app.selection # {}

====
